---- MODULE Spec2Model ----
(***************************************************************************)
(* The processor execution engine of the Miden VM: the block executor of   *)
(* processor/src/lib.rs, the overflow table of processor/src/stack/        *)
(* overflow.rs and the debug iterator of processor/src/debug.rs.           *)
(*                                                                         *)
(* Two processes run the same script on the same inputs: the one built by  *)
(* execute (Process::new, overflow trace off) and the one built by         *)
(* execute_iter (Process::new_debug, overflow trace on).  The recursion of *)
(* execute_code_block is kept as an explicit stack of frames, one frame    *)
(* per active call, with the position reached inside the block executor.   *)
(*                                                                         *)
(* Specification Spec is the executor and the iterator; OverflowSpec is    *)
(* the overflow table driven directly by arbitrary push and pop calls.     *)
(***************************************************************************)
EXTENDS Integers, Sequences, FiniteSets, TLC

VARIABLES
    script,      \* the root CodeBlock handed to execute / execute_iter
    inputs,      \* ProgramInputs: [stack_init, advice_tape]
    system,      \* per process: System.clk
    stack,       \* per process: Stack [trace, overflow, depth]
    advice,      \* per process: what is left of the advice tape
    decoder,     \* per process: the notifications the Decoder received, in order
    executed,    \* per process: the micro-operations execute_op completed, in order
    frames,      \* per process: active execute_code_block calls, innermost first
    result,      \* per process: outcome of execute_code_block(script.root())
    ret,         \* per process: what execute / execute_iter returned to the caller
    iter,        \* the VmStateIterator [clk, error] built by execute_iter
    items,       \* every value next() returned so far, in order
    turn,        \* which process takes the next step (both run the same script)
    logical,     \* per process: the live stack after each clock cycle (history)
    ot,          \* OverflowSpec: an OverflowTable [active, trace, trace_enabled]
    ot_log       \* OverflowSpec: the calls made on ot, in order

vars == <<script, inputs, system, stack, advice, decoder, executed, frames,
          result, ret, iter, items, turn, logical, ot, ot_log>>

execVars == <<script, inputs, system, stack, advice, decoder, executed, frames,
              result, ret, iter, items, turn, logical>>

----------------------------------------------------------------------------
(* Bounds of the model *)

\* advice tapes hold at most MaxTape elements
MaxTape == 3
\* execution is cut once clk reaches MaxClk (a loop may run without bound)
MaxClk == 26
\* next() is called at most MaxExtraNext times after the last state was yielded
MaxExtraNext == 3
\* stand-in for the field modulus, which no source file shown sets
FieldModulus == 257
\* OverflowSpec: at most MaxCalls calls are made, with steps 0..MaxStep
MaxCalls == 4
MaxStep == 2

(* Program constants *)

\* STACK_TOP_SIZE: the width of the top segment of the stack
MIN_DEPTH == 16
\* initial free-memory pointer, 2^30
FMP_MIN == 1073741824

----------------------------------------------------------------------------
(* Field elements *)

Felt(n) == n % FieldModulus
ZERO == 0
ONE == 1

Max(S) == CHOOSE x \in S : \A y \in S : y <= x

SeqsUpTo(S, n) == UNION {[1..k -> S] : k \in 0..n}

Reverse(s) == [i \in 1..Len(s) |-> s[Len(s) + 1 - i]]

Zeros(n) == [i \in 1..n |-> ZERO]

----------------------------------------------------------------------------
(* ExecutionError *)

NoError == [kind |-> "None", value |-> 0]
NotBinaryValue(v) == [kind |-> "NotBinaryValue", value |-> v]
UnexecutableCodeBlock(h) == [kind |-> "UnexecutableCodeBlock", value |-> h]
EmptyAdviceTape(clk) == [kind |-> "EmptyAdviceTape", value |-> clk]

----------------------------------------------------------------------------
(* OverflowTable *)

\* OverflowTable::new
OverflowNew(trace_enabled) ==
    [active |-> <<>>, trace |-> {}, trace_enabled |-> trace_enabled]

\* BTreeMap::insert that keeps the snapshot a step already has (tried
\* against C27)
TraceInsertKeepsFirst(trace, step, values) ==
    IF \E e \in trace : e.step = step
    THEN trace
    ELSE trace \cup {[step |-> step, values |-> values]}

\* snapshots that share the live sequence in place of a clone of it: every
\* insert shows in the snapshots recorded before (tried against C29)
TraceInsertShared(trace, step, values) ==
    {[step |-> e.step, values |-> values] : e \in trace}
        \cup {[step |-> step, values |-> values]}

\* BTreeMap::insert: one entry per key, a later insert replaces the earlier
TraceInsert(trace, step, values) ==
    {e \in trace : e.step # step} \cup {[step |-> step, values |-> values]}

\* OverflowTable::push that keeps the value only when tracing (tried against C9)
OverflowPushTracedOnly(o, step, value) ==
    IF o.trace_enabled
    THEN [o EXCEPT !.active = Append(@, value),
                   !.trace = TraceInsert(@, step, Append(o.active, value))]
    ELSE o

\* OverflowTable::push that records a snapshot whatever the flag says
\* (tried against C19)
OverflowPushAlwaysTraced(o, step, value) ==
    LET act == Append(o.active, value)
    IN  [o EXCEPT !.active = act, !.trace = TraceInsert(@, step, act)]

\* OverflowTable::push
OverflowPush(o, step, value) ==
    LET act == Append(o.active, value)
    IN  [o EXCEPT !.active = act,
                  !.trace = IF o.trace_enabled THEN TraceInsert(@, step, act) ELSE @]

\* OverflowTable::pop that forgets to record the snapshot (tried against C4)
OverflowPopUnrecorded(o, step) ==
    IF o.active = <<>>
    THEN o
    ELSE [o EXCEPT !.active = SubSeq(o.active, 1, Len(o.active) - 1)]

\* OverflowTable::pop that records a snapshot even when nothing was removed
\* (tried against C26)
OverflowPopAlwaysRecorded(o, step) ==
    LET act == IF o.active = <<>> THEN <<>> ELSE SubSeq(o.active, 1, Len(o.active) - 1)
    IN  [o EXCEPT !.active = act,
                  !.trace = IF o.trace_enabled THEN TraceInsert(@, step, act) ELSE @]

\* OverflowTable::pop that removes an element only when it records the
\* removal (tried against C30)
OverflowPopTracedOnly(o, step) ==
    IF o.active = <<>> \/ ~o.trace_enabled
    THEN o
    ELSE LET act == SubSeq(o.active, 1, Len(o.active) - 1)
         IN  [o EXCEPT !.active = act, !.trace = TraceInsert(@, step, act)]

\* OverflowTable::pop: the table after the call
OverflowPop(o, step) ==
    IF o.active = <<>>
    THEN o
    ELSE LET act == SubSeq(o.active, 1, Len(o.active) - 1)
         IN  [o EXCEPT !.active = act,
                       !.trace = IF o.trace_enabled THEN TraceInsert(@, step, act) ELSE @]

\* OverflowTable::pop that hands back the oldest element (tried against C20)
OverflowPoppedFirst(o) ==
    IF o.active = <<>>
    THEN [some |-> FALSE, value |-> ZERO]
    ELSE [some |-> TRUE, value |-> o.active[1]]

\* OverflowTable::pop: the Option<Felt> returned
OverflowPopped(o) ==
    IF o.active = <<>>
    THEN [some |-> FALSE, value |-> ZERO]
    ELSE [some |-> TRUE, value |-> o.active[Len(o.active)]]

\* append_state_into that hands back the snapshot in place of the
\* destination's contents (tried against C28)
AppendStateIntoReplaces(o, step, values) ==
    LET keys == {e.step : e \in {x \in o.trace : x.step <= step}}
    IN  IF keys = {}
        THEN values
        ELSE (CHOOSE e \in o.trace : e.step = Max(keys)).values

\* OverflowTable::append_state_into: trace.range(0..=step).last()
AppendStateInto(o, step, values) ==
    LET keys == {e.step : e \in {x \in o.trace : x.step <= step}}
    IN  IF keys = {}
        THEN values
        ELSE values \o (CHOOSE e \in o.trace : e.step = Max(keys)).values

\* OverflowTable::append_into
AppendInto(o, size, vec) == vec \o SubSeq(o.active, 1, size)

----------------------------------------------------------------------------
(* Stack: the top segment, one row per clock cycle, over the overflow table *)

\* Stack::new that takes the first element of stack_init for the top
\* (tried against C21)
StackNewFirstOnTop(inp, keep_overflow_trace) ==
    [trace |-> <<inp.stack_init \o Zeros(MIN_DEPTH - Len(inp.stack_init))>>,
     overflow |-> OverflowNew(keep_overflow_trace),
     depth |-> MIN_DEPTH]

\* Stack::new: stack_init is pushed in order, so its last element is on top;
\* the top segment is padded with ZERO to MIN_DEPTH (Len(stack_init) <= MIN_DEPTH)
StackNew(inp, keep_overflow_trace) ==
    [trace |-> <<Reverse(inp.stack_init) \o Zeros(MIN_DEPTH - Len(inp.stack_init))>>,
     overflow |-> OverflowNew(keep_overflow_trace),
     depth |-> MIN_DEPTH]

\* the row of the top segment at clock cycle clk
StackRow(s, clk) == s.trace[clk + 1]

\* Stack::peek
StackPeek(s, clk) == StackRow(s, clk)[1]

\* an operation that leaves the stack as it is: row clk+1 is row clk
StackCopy(s, clk) == [s EXCEPT !.trace = Append(@, StackRow(s, clk))]

\* Stack::push: value goes to position 0, the element at position MIN_DEPTH-1
\* spills into the overflow table under key clk; the new row is row clk+1
StackPush(s, clk, value) ==
    LET row == StackRow(s, clk)
    IN  [trace |-> Append(s.trace, <<value>> \o SubSeq(row, 1, MIN_DEPTH - 1)),
         overflow |-> OverflowPush(s.overflow, clk, row[MIN_DEPTH]),
         depth |-> s.depth + 1]

\* Stack::pop and its two-operand form: the first `consumed` elements leave,
\* `produced` takes their place, the rest moves up by one and the last
\* overflow element (ZERO when there is none) rises into position MIN_DEPTH-1
StackShiftLeft(s, clk, consumed, produced) ==
    LET row == StackRow(s, clk)
        up == OverflowPopped(s.overflow)
    IN  [trace |-> Append(s.trace,
                     produced \o SubSeq(row, consumed + 1, MIN_DEPTH)
                              \o <<IF up.some THEN up.value ELSE ZERO>>),
         overflow |-> OverflowPop(s.overflow, clk),
         depth |-> IF up.some THEN s.depth - 1 ELSE s.depth]

\* Stack::get_state_at: row `step` of the top segment followed by the
\* overflow snapshot at `step`
StackGetStateAt(s, step) == AppendStateInto(s.overflow, step, StackRow(s, step))

\* the live stack after the operation of cycle clk-1: depth, top segment and
\* the overflow table's active sequence
LiveStack(s, clk) ==
    [depth |-> s.depth, top |-> StackRow(s, clk), overflow |-> s.overflow.active]

----------------------------------------------------------------------------
(* Operations *)

Op(name, arg) == [op |-> name, arg |-> arg]
Noop == Op("Noop", 0)
Drop == Op("Drop", 0)
Add == Op("Add", 0)
Mul == Op("Mul", 0)
Dup == Op("Dup", 0)
Read == Op("Read", 0)
Push(v) == Op("Push", v)

\* Process::execute_op without the clock: the error raised, if any, and the
\* stack and advice provider the operation leaves
ExecuteOp(s, adv, clk, op) ==
    LET row == StackRow(s, clk)
        ok(st, ad) == [err |-> NoError, stack |-> st, advice |-> ad]
    IN  CASE op.op = "Noop" -> ok(StackCopy(s, clk), adv)
          [] op.op = "Drop" -> ok(StackShiftLeft(s, clk, 1, <<>>), adv)
          [] op.op = "Push" -> ok(StackPush(s, clk, Felt(op.arg)), adv)
          [] op.op = "Dup"  -> ok(StackPush(s, clk, row[1]), adv)
          [] op.op = "Add"  ->
                ok(StackShiftLeft(s, clk, 2, <<Felt(row[1] + row[2])>>), adv)
          [] op.op = "Mul"  ->
                ok(StackShiftLeft(s, clk, 2, <<Felt(row[1] * row[2])>>), adv)
          [] op.op = "Read" ->
                IF adv = <<>>
                THEN [err |-> EmptyAdviceTape(clk), stack |-> s, advice |-> adv]
                ELSE ok(StackPush(s, clk, Head(adv)), Tail(adv))

----------------------------------------------------------------------------
(* Code blocks *)

Span(op_batches) == [type |-> "Span", op_batches |-> op_batches]
Join(first, second) == [type |-> "Join", first |-> first, second |-> second]
Split(on_true, on_false) == [type |-> "Split", on_true |-> on_true, on_false |-> on_false]
Loop(body) == [type |-> "Loop", body |-> body]
Proxy(hash) == [type |-> "Proxy", hash |-> hash]

\* the scripts executed: the programs of miden/src/tests.rs and small trees
\* that put every block kind, a Proxy and a failing user operation in reach
SpanArith == Span(<<<<Add, Push(5), Mul, Push(7)>>>>)
NestedJoin == Join(Span(<<<<Add>>>>), Join(Span(<<<<Noop>>>>), Span(<<<<Push(5), Mul, Push(7)>>>>)))
IfElse ==
    Join(Span(<<<<Read>>>>),
         Join(Split(Span(<<<<Add, Push(3)>>>>), Span(<<<<Push(7), Add, Push(8)>>>>)),
              Span(<<<<Mul>>>>)))
While == Join(Span(<<<<Mul, Read>>>>), Loop(Span(<<<<Dup, Mul, Read>>>>)))
ReadLoop == Loop(Span(<<<<Read>>>>))
SplitProxy == Split(Proxy(7), Span(<<<<Read>>, <<Push(2), Read>>>>))
LoopSplit == Loop(Join(Span(<<<<Read>>>>), Split(Span(<<<<Read>>>>), Proxy(9))))
Forever == Loop(Span(<<<<Push(1)>>>>))
NestedLoop == Join(Span(<<<<Read>>>>), Loop(Loop(Span(<<<<Read>>, <<Read>>>>))))

\* two pushes over a full top segment, then two drops
PushPop == Span(<<<<Push(3), Push(4), Drop, Drop>>>>)

Scripts == {SpanArith, NestedJoin, IfElse, While, ReadLoop, SplitProxy,
            LoopSplit, Forever, NestedLoop, PushPop, Proxy(3)}

\* the values put on advice tapes: both predicates and a non-binary value
TapeFelts == {0, 1, 2}

\* the inputs of miden/src/tests.rs and of tests/integration/exec_iters.rs
\* (a full top segment), next to an empty stack_init and the single-element ones
StackInits == {<<>>, <<0>>, <<1>>, <<2>>, <<1, 2>>, <<5, 3>>, [i \in 1..MIN_DEPTH |-> i]}
AdviceTapes == SeqsUpTo(TapeFelts, MaxTape)

----------------------------------------------------------------------------
(* Process *)

Runs == {"execute", "execute_iter"}
Other(m) == IF m = "execute" THEN "execute_iter" ELSE "execute"

\* Process::new / Process::new_debug: the keep_overflow_trace flag
KeepOverflowTrace(m) == m = "execute_iter"

Running == [kind |-> "Running", error |-> NoError]
Ok == [kind |-> "Ok", error |-> NoError]
Err(e) == [kind |-> "Err", error |-> e]
Panicked == [kind |-> "Panic", error |-> NoError]

Note(event, arg) == [event |-> event, arg |-> arg]

\* a call of execute_code_block(block), about to dispatch on the block
Frame(block) == [block |-> block, pc |-> "start", condition |-> ZERO, batch |-> 1, idx |-> 1]

\* an error that only the innermost call returns: its caller carries on
\* (tried against C10)
RaiseSwallowed(fr, e) == [frames |-> Tail(fr), result |-> Err(e)]

\* `?` and `return Err(e)`: every active call returns the error at once
Raise(fr, e) == [frames |-> <<>>, result |-> Err(e)]

\* `Ok(())`: the innermost call returns to its caller; the root's return
\* ends execute_code_block(script.root())
ReturnOk(fr) ==
    [frames |-> Tail(fr), result |-> IF Tail(fr) = <<>> THEN Ok ELSE Running]

\* the innermost call moves on inside its block executor
Goto(fr, pc) == [frames |-> <<[Head(fr) EXCEPT !.pc = pc]>> \o Tail(fr), result |-> Running]

\* the innermost call moves on and calls execute_code_block(child)
Call(fr, pc, condition, child) ==
    [frames |-> <<Frame(child), [Head(fr) EXCEPT !.pc = pc, !.condition = condition]>> \o Tail(fr),
     result |-> Running]

\* a process may step while its execute_code_block call is active; the two
\* processes take turns, so that they can be compared cycle by cycle
CanStep(m) ==
    /\ frames[m] # <<>>
    /\ system[m] < MaxClk
    /\ turn = m \/ frames[Other(m)] = <<>> \/ system[Other(m)] >= MaxClk

\* a clock driven by the decoder's notifications instead of by the operations
\* executed (tried against C11)
CommitDecoderClock(m, notes, ops, st, adv, next) ==
    /\ decoder' = [decoder EXCEPT ![m] = @ \o notes]
    /\ executed' = [executed EXCEPT ![m] = @ \o ops]
    /\ system' = [system EXCEPT ![m] = @ + Len(notes)]
    /\ stack' = [stack EXCEPT ![m] = st]
    /\ advice' = [advice EXCEPT ![m] = adv]
    /\ logical' = [logical EXCEPT ![m] =
                     IF ops = <<>> THEN @ ELSE Append(@, LiveStack(st, system[m] + 1))]
    /\ frames' = [frames EXCEPT ![m] = next.frames]
    /\ result' = [result EXCEPT ![m] = next.result]
    /\ turn' = Other(m)
    /\ UNCHANGED <<script, inputs, ret, iter, items, ot, ot_log>>

\* the state a step of process m leaves: `notes` reached the decoder, `ops`
\* were executed (each advances clk by one), next is the control state
Commit(m, notes, ops, st, adv, next) ==
    /\ decoder' = [decoder EXCEPT ![m] = @ \o notes]
    /\ executed' = [executed EXCEPT ![m] = @ \o ops]
    /\ system' = [system EXCEPT ![m] = @ + Len(ops)]
    /\ stack' = [stack EXCEPT ![m] = st]
    /\ advice' = [advice EXCEPT ![m] = adv]
    /\ logical' = [logical EXCEPT ![m] =
                     IF ops = <<>> THEN @ ELSE Append(@, LiveStack(st, system[m] + 1))]
    /\ frames' = [frames EXCEPT ![m] = next.frames]
    /\ result' = [result EXCEPT ![m] = next.result]
    /\ turn' = Other(m)
    /\ UNCHANGED <<script, inputs, ret, iter, items, ot, ot_log>>

\* decoder notifications `pre`, then self.execute_op(op)?, then notifications
\* `post`, then the block executor continues with `next`
RunOp(m, pre, op, post, next) ==
    LET r == ExecuteOp(stack[m], advice[m], system[m], op)
    IN  IF r.err = NoError
        THEN Commit(m, pre \o post, <<op>>, r.stack, r.advice, next)
        ELSE Commit(m, pre, <<>>, stack[m], advice[m], Raise(frames[m], r.err))

\* a step that executes no operation
NoOp(m, notes, next) == Commit(m, notes, <<>>, stack[m], advice[m], next)

Top(m) == Head(frames[m])
At(m, type, pc) ==
    /\ CanStep(m)
    /\ Top(m).block.type = type
    /\ Top(m).pc = pc
Peek(m) == StackPeek(stack[m], system[m])

----------------------------------------------------------------------------
(* Block executors *)

\* a Proxy taken for an empty block that returns Ok (tried against C18)
ExecuteProxySkipped(m) ==
    /\ CanStep(m)
    /\ Top(m).block.type = "Proxy"
    /\ NoOp(m, <<>>, ReturnOk(frames[m]))

\* execute_code_block on a Proxy
ExecuteProxy(m) ==
    /\ CanStep(m)
    /\ Top(m).block.type = "Proxy"
    /\ NoOp(m, <<>>, Raise(frames[m], UnexecutableCodeBlock(Top(m).block.hash)))

\* a Join that starts with its second child (tried against C15)
JoinStartSecondFirst(m) ==
    /\ At(m, "Join", "start")
    /\ RunOp(m, <<Note("start_join", 0)>>, Noop, <<>>,
             Call(frames[m], "second", ZERO, Top(m).block.second))

\* execute_join_block: start JOIN, then the first child
JoinStart(m) ==
    /\ At(m, "Join", "start")
    /\ RunOp(m, <<Note("start_join", 0)>>, Noop, <<>>,
             Call(frames[m], "second", ZERO, Top(m).block.first))

\* execute_join_block: the first child returned Ok, call the second
JoinSecond(m) ==
    /\ At(m, "Join", "second")
    /\ NoOp(m, <<>>, Call(frames[m], "end", ZERO, Top(m).block.second))

\* an end of JOIN that notifies the decoder without executing the no-op
\* (tried against C23)
JoinEndWithoutNoop(m) ==
    /\ At(m, "Join", "end")
    /\ NoOp(m, <<Note("end_join", 0)>>, ReturnOk(frames[m]))

\* an end of JOIN that runs the Join again (tried against C31)
JoinEndRepeats(m) ==
    /\ At(m, "Join", "end")
    /\ RunOp(m, <<Note("end_join", 0)>>, Noop, <<>>, Goto(frames[m], "start"))

\* execute_join_block: end JOIN
JoinEnd(m) ==
    /\ At(m, "Join", "end")
    /\ RunOp(m, <<Note("end_join", 0)>>, Noop, <<>>, ReturnOk(frames[m]))

\* a Split that takes every condition other than ONE for false (tried against C6)
SplitBranchTruthy(fr, condition) ==
    IF condition = ONE THEN Call(fr, "end", condition, Head(fr).block.on_true)
    ELSE Call(fr, "end", condition, Head(fr).block.on_false)

\* a Split that runs on_false on ONE and on_true on ZERO (tried against C14)
SplitBranchSwapped(fr, condition) ==
    IF condition = ONE THEN Call(fr, "end", condition, Head(fr).block.on_false)
    ELSE IF condition = ZERO THEN Call(fr, "end", condition, Head(fr).block.on_true)
    ELSE Raise(fr, NotBinaryValue(condition))

\* what execute_split_block does once the condition is dropped
SplitBranch(fr, condition) ==
    IF condition = ONE THEN Call(fr, "end", condition, Head(fr).block.on_true)
    ELSE IF condition = ZERO THEN Call(fr, "end", condition, Head(fr).block.on_false)
    ELSE Raise(fr, NotBinaryValue(condition))

\* execute_split_block: start SPLIT, drop the condition, choose the branch
SplitStart(m) ==
    /\ At(m, "Split", "start")
    /\ RunOp(m, <<Note("start_split", Peek(m))>>, Drop, <<>>,
             SplitBranch(frames[m], Peek(m)))

\* an end of SPLIT that executes a drop for its no-op (tried against C25)
SplitEndDrops(m) ==
    /\ At(m, "Split", "end")
    /\ RunOp(m, <<Note("end_split", 0)>>, Drop, <<>>, ReturnOk(frames[m]))

\* execute_split_block: end SPLIT
SplitEnd(m) ==
    /\ At(m, "Split", "end")
    /\ RunOp(m, <<Note("end_split", 0)>>, Noop, <<>>, ReturnOk(frames[m]))

\* a Loop that runs its body before it looks at the condition again, whatever
\* binary value it starts on (tried against C13)
LoopStartDoWhile(m) ==
    /\ At(m, "Loop", "start")
    /\ LET condition == Peek(m)
           note == <<Note("start_loop", condition)>>
       IN  IF condition \in {ONE, ZERO}
           THEN RunOp(m, note, Drop, <<>>,
                      Call(frames[m], "while", ONE, Top(m).block.body))
           ELSE NoOp(m, note, Raise(frames[m], NotBinaryValue(condition)))

\* a Loop that drops the value it inspected before it fails on it, as a Split
\* does (tried against C24)
LoopStartDropsFirst(m) ==
    /\ At(m, "Loop", "start")
    /\ LET condition == Peek(m)
           note == <<Note("start_loop", condition)>>
       IN  IF condition = ONE
           THEN RunOp(m, note, Drop, <<>>,
                      Call(frames[m], "while", condition, Top(m).block.body))
           ELSE IF condition = ZERO
           THEN RunOp(m, note, Noop, <<>>,
                      [frames |-> <<[Top(m) EXCEPT !.pc = "end", !.condition = condition]>>
                                     \o Tail(frames[m]),
                       result |-> Running])
           ELSE RunOp(m, note, Drop, <<>>, Raise(frames[m], NotBinaryValue(condition)))

\* execute_loop_block: start LOOP
LoopStart(m) ==
    /\ At(m, "Loop", "start")
    /\ LET condition == Peek(m)
           note == <<Note("start_loop", condition)>>
       IN  IF condition = ONE
           THEN RunOp(m, note, Drop, <<>>,
                      Call(frames[m], "while", condition, Top(m).block.body))
           ELSE IF condition = ZERO
           THEN RunOp(m, note, Noop, <<>>,
                      [frames |-> <<[Top(m) EXCEPT !.pc = "end", !.condition = condition]>>
                                     \o Tail(frames[m]),
                       result |-> Running])
           ELSE NoOp(m, note, Raise(frames[m], NotBinaryValue(condition)))

\* a REPEAT that leaves the inspected condition on the stack (tried against C12)
LoopRepeatNoDrop(m) ==
    /\ At(m, "Loop", "while")
    /\ Peek(m) = ONE
    /\ RunOp(m, <<>>, Noop, <<Note("repeat", 0)>>,
             Call(frames[m], "while", Top(m).condition, Top(m).block.body))

\* execute_loop_block: the body returned Ok with ONE on top, REPEAT
LoopRepeat(m) ==
    /\ At(m, "Loop", "while")
    /\ Peek(m) = ONE
    /\ RunOp(m, <<>>, Drop, <<Note("repeat", 0)>>,
             Call(frames[m], "while", Top(m).condition, Top(m).block.body))

\* execute_loop_block: END, reached when the loop was not entered or when
\* the body returned Ok with something other than ONE on top
LoopEnd(m) ==
    /\ \/ At(m, "Loop", "end")
       \/ At(m, "Loop", "while") /\ Peek(m) # ONE
    /\ IF Peek(m) = ZERO
       THEN RunOp(m, <<>>, Drop, <<Note("end_loop", 0)>>, ReturnOk(frames[m]))
       ELSE IF Top(m).condition = ONE
       THEN NoOp(m, <<>>, [frames |-> <<>>, result |-> Panicked])
       ELSE NoOp(m, <<>>, Raise(frames[m], NotBinaryValue(Peek(m))))

\* execute_span_block: start SPAN
SpanStart(m) ==
    /\ At(m, "Span", "start")
    /\ RunOp(m, <<Note("start_span", 0)>>, Noop, <<>>, Goto(frames[m], "ops"))

SpanBatch(f) == f.block.op_batches[f.batch]

\* a Span that notifies the decoder of a user operation before it dispatches
\* the operation to its handler (tried against C16)
SpanUserOpNotifiedFirst(m) ==
    /\ At(m, "Span", "ops")
    /\ Top(m).idx <= Len(SpanBatch(Top(m)))
    /\ LET op == SpanBatch(Top(m))[Top(m).idx]
       IN  RunOp(m, <<Note("execute_user_op", op)>>, op, <<>>,
                 [frames |-> <<[Top(m) EXCEPT !.idx = @ + 1]>> \o Tail(frames[m]),
                  result |-> Running])

\* execute_span_block: the next user operation of the current batch
SpanUserOp(m) ==
    /\ At(m, "Span", "ops")
    /\ Top(m).idx <= Len(SpanBatch(Top(m)))
    /\ LET op == SpanBatch(Top(m))[Top(m).idx]
       IN  RunOp(m, <<>>, op, <<Note("execute_user_op", op)>>,
                 [frames |-> <<[Top(m) EXCEPT !.idx = @ + 1]>> \o Tail(frames[m]),
                  result |-> Running])

\* execute_span_block: RESPAN before the next batch
SpanRespan(m) ==
    /\ At(m, "Span", "ops")
    /\ Top(m).idx > Len(SpanBatch(Top(m)))
    /\ Top(m).batch < Len(Top(m).block.op_batches)
    /\ RunOp(m, <<Note("respan", Top(m).batch + 1)>>, Noop, <<>>,
             [frames |-> <<[Top(m) EXCEPT !.batch = @ + 1, !.idx = 1]>> \o Tail(frames[m]),
              result |-> Running])

\* execute_span_block: end SPAN
SpanEnd(m) ==
    /\ At(m, "Span", "ops")
    /\ Top(m).idx > Len(SpanBatch(Top(m)))
    /\ Top(m).batch = Len(Top(m).block.op_batches)
    /\ RunOp(m, <<Note("end_span", 0)>>, Noop, <<>>, ReturnOk(frames[m]))

----------------------------------------------------------------------------
(* execute, execute_iter and the debug iterator *)

NoReturn == [kind |-> "None", error |-> NoError]

\* execute_code_block(script.root()) returned and the caller has nothing yet
Returned(m) == frames[m] = <<>> /\ result[m].kind \in {"Ok", "Err"} /\ ret[m] = NoReturn

\* execute: the error, or ExecutionTrace::new(process)
ExecuteReturn ==
    /\ Returned("execute")
    /\ ret' = [ret EXCEPT !["execute"] =
                 IF result["execute"].kind = "Err"
                 THEN [kind |-> "Err", error |-> result["execute"].error]
                 ELSE [kind |-> "Trace", error |-> NoError]]
    /\ UNCHANGED <<script, inputs, system, stack, advice, decoder, executed, frames,
                   result, iter, items, turn, logical, ot, ot_log>>

\* an iterator that drops the error of the execution (tried against C8)
VmStateIteratorNewNoError(res) == [clk |-> 0, error |-> NoError]

\* VmStateIterator::new
VmStateIteratorNew(res) == [clk |-> 0, error |-> res.error]

\* execute_iter: VmStateIterator::new(process, result)
ExecuteIterReturn ==
    /\ Returned("execute_iter")
    /\ ~Returned("execute")
    /\ ret' = [ret EXCEPT !["execute_iter"] = [kind |-> "Iterator", error |-> NoError]]
    /\ iter' = VmStateIteratorNew(result["execute_iter"])
    /\ UNCHANGED <<script, inputs, system, stack, advice, decoder, executed, frames,
                   result, items, turn, logical, ot, ot_log>>

NoState == [clk |-> 0, fmp |-> 0, stack |-> <<>>]
ItemNone == [kind |-> "None", state |-> NoState, error |-> NoError]
ItemErr(e) == [kind |-> "Err", state |-> NoState, error |-> e]
ItemOk(st) == [kind |-> "Ok", state |-> st, error |-> NoError]

\* System::get_fmp_at: no operation of the model moves fmp
GetFmpAt(clk) == FMP_MIN

\* next() that stops one state early, `>=` for `>` (tried against C7)
NextItemEarly(it, clk_final, st) ==
    IF it.clk >= clk_final
    THEN IF it.error # NoError THEN ItemErr(it.error) ELSE ItemNone
    ELSE ItemOk([clk |-> it.clk, fmp |-> GetFmpAt(it.clk),
                 stack |-> StackGetStateAt(st, it.clk)])

\* VmStateIterator::next: the item returned
NextItem(it, clk_final, st) ==
    IF it.clk > clk_final
    THEN IF it.error # NoError THEN ItemErr(it.error) ELSE ItemNone
    ELSE ItemOk([clk |-> it.clk, fmp |-> GetFmpAt(it.clk),
                 stack |-> StackGetStateAt(st, it.clk)])

\* next() that moves the cursor on every call, whatever it returns (tried
\* against C32)
NextIterAlways(it, clk_final) == [it EXCEPT !.clk = @ + 1]

\* VmStateIterator::next: the iterator after the call
NextIter(it, clk_final) ==
    IF it.clk > clk_final THEN it ELSE [it EXCEPT !.clk = @ + 1]

\* a call of next() on the iterator execute_iter returned
IteratorNext ==
    /\ ret["execute_iter"].kind = "Iterator"
    /\ Len(items) < system["execute_iter"] + 1 + MaxExtraNext
    /\ items' = Append(items, NextItem(iter, system["execute_iter"], stack["execute_iter"]))
    /\ iter' = NextIter(iter, system["execute_iter"])
    /\ UNCHANGED <<script, inputs, system, stack, advice, decoder, executed, frames,
                   result, ret, turn, logical, ot, ot_log>>

----------------------------------------------------------------------------
(* Specification of the executor *)

\* Process::initialize for both processes
Init ==
    /\ script \in Scripts
    /\ inputs \in [stack_init : StackInits, advice_tape : AdviceTapes]
    /\ system = [m \in Runs |-> 0]
    /\ stack = [m \in Runs |-> StackNew(inputs, KeepOverflowTrace(m))]
    /\ advice = [m \in Runs |-> inputs.advice_tape]
    /\ decoder = [m \in Runs |-> <<>>]
    /\ executed = [m \in Runs |-> <<>>]
    /\ frames = [m \in Runs |-> <<Frame(script)>>]
    /\ result = [m \in Runs |-> Running]
    /\ ret = [m \in Runs |-> NoReturn]
    /\ iter = VmStateIteratorNew(Running)
    /\ items = <<>>
    /\ turn = "execute"
    /\ logical = [m \in Runs |-> <<LiveStack(stack[m], 0)>>]
    /\ ot = OverflowNew(FALSE)
    /\ ot_log = <<>>

Next ==
    \/ \E m \in Runs : ExecuteProxy(m)
    \/ \E m \in Runs : JoinStart(m)
    \/ \E m \in Runs : JoinSecond(m)
    \/ \E m \in Runs : JoinEnd(m)
    \/ \E m \in Runs : SplitStart(m)
    \/ \E m \in Runs : SplitEnd(m)
    \/ \E m \in Runs : LoopStart(m)
    \/ \E m \in Runs : LoopRepeat(m)
    \/ \E m \in Runs : LoopEnd(m)
    \/ \E m \in Runs : SpanStart(m)
    \/ \E m \in Runs : SpanUserOp(m)
    \/ \E m \in Runs : SpanRespan(m)
    \/ \E m \in Runs : SpanEnd(m)
    \/ ExecuteReturn
    \/ ExecuteIterReturn
    \/ IteratorNext

Spec == Init /\ [][Next]_vars

\* execute and execute_iter are sequential calls that run until they return:
\* a step that stays possible is taken
FairSpec == Spec /\ WF_vars(Next)

----------------------------------------------------------------------------
(* Specification of the overflow table on its own: any caller, any calls *)

OtValues == {1, 2}

\* a call of OverflowTable::push(step, value)
OtPush(step, value) ==
    /\ Len(ot_log) < MaxCalls
    /\ ot' = OverflowPush(ot, step, value)
    /\ ot_log' = Append(ot_log, [call |-> "push", step |-> step, value |-> value,
                                 returned |-> [some |-> FALSE, value |-> ZERO]])
    /\ UNCHANGED execVars

\* a call of OverflowTable::pop(step)
OtPop(step) ==
    /\ Len(ot_log) < MaxCalls
    /\ ot' = OverflowPop(ot, step)
    /\ ot_log' = Append(ot_log, [call |-> "pop", step |-> step, value |-> ZERO,
                                 returned |-> OverflowPopped(ot)])
    /\ UNCHANGED execVars

OverflowInit ==
    /\ script = Proxy(3)
    /\ inputs = [stack_init |-> <<>>, advice_tape |-> <<>>]
    /\ system = [m \in Runs |-> 0]
    /\ stack = [m \in Runs |-> StackNew(inputs, KeepOverflowTrace(m))]
    /\ advice = [m \in Runs |-> <<>>]
    /\ decoder = [m \in Runs |-> <<>>]
    /\ executed = [m \in Runs |-> <<>>]
    /\ frames = [m \in Runs |-> <<>>]
    /\ result = [m \in Runs |-> Running]
    /\ ret = [m \in Runs |-> NoReturn]
    /\ iter = VmStateIteratorNew(Running)
    /\ items = <<>>
    /\ turn = "execute"
    /\ logical = [m \in Runs |-> <<>>]
    /\ ot \in {OverflowNew(t) : t \in BOOLEAN}
    /\ ot_log = <<>>

OverflowNext ==
    \/ \E step \in 0..MaxStep, value \in OtValues : OtPush(step, value)
    \/ \E step \in 0..MaxStep : OtPop(step)

OverflowSpec == OverflowInit /\ [][OverflowNext]_vars

----------------------------------------------------------------------------
(* Claims *)

AllSteps == 0..(MaxStep + 1)

\* the calls of a log were made with non-decreasing step arguments
NonDecreasing(log) == \A i, j \in 1..Len(log) : i < j => log[i].step <= log[j].step

\* the values pushed at steps <= k minus those popped at steps <= k, in
\* insertion order: the calls of the log with step <= k applied to a sequence
RECURSIVE PushedMinusPopped(_, _)
PushedMinusPopped(log, k) ==
    IF log = <<>> THEN <<>>
    ELSE LET before == PushedMinusPopped(SubSeq(log, 1, Len(log) - 1), k)
             c == log[Len(log)]
         IN  IF c.step > k THEN before
             ELSE IF c.call = "push" THEN Append(before, c.value)
             ELSE IF before = <<>> THEN <<>>
             ELSE SubSeq(before, 1, Len(before) - 1)

\* C4: with trace capture enabled and non-decreasing steps, for every k the
\* snapshot at k is the overflow contents after the last mutation with step
\* <= k: the values pushed at steps <= k minus those popped at steps <= k,
\* in insertion order (nothing when no mutation was made at a step <= k)
C4_SnapshotLaw ==
    (ot.trace_enabled /\ NonDecreasing(ot_log)) =>
        \A k \in AllSteps : AppendStateInto(ot, k, <<>>) = PushedMinusPopped(ot_log, k)

\* C4 witness: pushes and a pop that removed an element, at increasing steps,
\* with a snapshot that differs from the snapshot of an earlier step
C4_Witness ==
    /\ ot.trace_enabled
    /\ NonDecreasing(ot_log)
    /\ Len(ot_log) = MaxCalls
    /\ \E i \in 1..Len(ot_log) : ot_log[i].call = "pop" /\ ot_log[i].returned.some
    /\ AppendStateInto(ot, MaxStep, <<>>) # <<>>
    /\ AppendStateInto(ot, 0, <<>>) # AppendStateInto(ot, 1, <<>>)
    /\ AppendStateInto(ot, 1, <<>>) # AppendStateInto(ot, MaxStep, <<>>)

\* the process of execute and the process of execute_iter
E == "execute"
D == "execute_iter"

Binary == {ZERO, ONE}

\* clk when execute_code_block returned: System.clk never moves afterwards
ClkFinal(m) == system[m]

\* C1: when a Loop entered with predicate 1 finds, after a body execution, a
\* value v on top that is neither 0 nor 1, the step that follows returns the
\* error NotBinaryValue(v) (and so does not panic)
C1_LoopEndNotBinaryValue ==
    [][\A m \in Runs :
          (/\ frames[m] # <<>>
           /\ Top(m).block.type = "Loop"
           /\ Top(m).pc = "while"
           /\ Peek(m) \notin Binary
           /\ frames'[m] # frames[m])
          => result'[m] = Err(NotBinaryValue(Peek(m)))]_vars

\* C2: an error is yielded by the iterator exactly once: every item after an
\* error item is None
C2_ErrorYieldedOnce ==
    \A i \in 1..Len(items) :
        items[i].kind = "Err" => \A j \in (i + 1)..Len(items) : items[j] = ItemNone

\* C3: for every step k <= clk, the stack reconstructed for step k (row k of
\* the top segment followed by the overflow snapshot at k) is the logical
\* stack at step k: its length is the depth d(k) >= MIN_DEPTH and it holds
\* the top segment followed by the overflow contents of that step
C3_ReconstructedIsLogical ==
    \A k \in 0..(Len(logical[D]) - 1) :
        LET s == StackGetStateAt(stack[D], k)
            l == logical[D][k + 1]
        IN  /\ l.depth >= MIN_DEPTH
            /\ Len(s) = l.depth
            /\ s = l.top \o l.overflow

\* C5: whenever execute_code_block has returned, with Ok or with an error,
\* as many decoder notifications were issued as micro-operations executed
C5_NotificationsPaired ==
    \A m \in Runs :
        (frames[m] = <<>> /\ result[m].kind \in {"Ok", "Err"})
            => Len(decoder[m]) = Len(executed[m])

\* C6: a Split or the start of a Loop that inspects v outside {0, 1} fails
\* with NotBinaryValue(v): the notification carrying v is the last one (no
\* branch and no body was started) and the result is that error
C6_NotBinaryPredicate ==
    \A m \in Runs : \A i \in 1..Len(decoder[m]) :
        (/\ decoder[m][i].event \in {"start_split", "start_loop"}
         /\ decoder[m][i].arg \notin Binary)
        => /\ i = Len(decoder[m])
           /\ frames[m] = <<>>
           /\ result[m] = Err(NotBinaryValue(decoder[m][i].arg))

\* C6 witness: a Split nested in a Join has inspected 2 and execution failed
C6_Witness ==
    \E m \in Runs :
        /\ Len(decoder[m]) > 1
        /\ decoder[m][Len(decoder[m])].event = "start_split"
        /\ decoder[m][Len(decoder[m])].arg = 2
        /\ result[m] = Err(NotBinaryValue(2))

C8_IteratorOnError ==
    (ret[D].kind = "Iterator" /\ result[D].kind = "Err") =>
        \A i \in 1..Len(items) :
            /\ i <= ClkFinal(D) + 1 => items[i].kind = "Ok" /\ items[i].state.clk = i - 1
            /\ i = ClkFinal(D) + 2 => items[i] = ItemErr(result[D].error)
            /\ items[i].kind = "Ok" => items[i].state.clk <= ClkFinal(D)

\* C8 witness: an execution that failed after some cycles, whose states and
\* whose error have been yielded
C8_Witness ==
    /\ ret[D].kind = "Iterator"
    /\ result[D].kind = "Err"
    /\ ClkFinal(D) >= 3
    /\ Len(items) >= ClkFinal(D) + 2

\* C9: execute and execute_iter, run on the same script and inputs, have
\* after every step executed the same micro-operations, issued the same
\* notifications, reached the same clk and outcome, and hold the same stack:
\* the same top-segment row at every step and the same live stack, overflow
\* contents included
C9_ExecuteAgreesWithExecuteIter ==
    turn = E =>
        /\ executed[E] = executed[D]
        /\ decoder[E] = decoder[D]
        /\ system[E] = system[D]
        /\ result[E] = result[D]
        /\ frames[E] = frames[D]
        /\ stack[E].trace = stack[D].trace
        /\ logical[E] = logical[D]

\* C9 witness: both calls returned after an execution during which the
\* overflow table held a non-zero element
C9_Witness ==
    /\ ret[E].kind = "Trace"
    /\ ret[D].kind = "Iterator"
    /\ \E k \in 1..Len(logical[D]) :
          /\ logical[D][k].overflow # <<>>
          /\ logical[D][k].overflow[1] # ZERO

\* what belongs to process m
ProcessState(m) == <<system[m], stack[m], advice[m], decoder[m], executed[m], result[m]>>

\* C10: once execute_code_block has failed nothing of the process changes
\* any more (no micro-operation, no notification, the same clk and error);
\* execute returns exactly that error, and a trace only after Ok
C10_FirstErrorAborts ==
    [][/\ \A m \in Runs :
              result[m].kind = "Err" =>
                  /\ ProcessState(m)' = ProcessState(m)
                  /\ frames'[m] = <<>>
       /\ ret'[E].kind = "Err" => ret'[E].error = result[E].error /\ result[E].kind = "Err"
       /\ ret'[E].kind = "Trace" => result[E].kind = "Ok"]_vars

\* C10 witness: execute returned an error raised after some cycles
C10_Witness ==
    /\ ret[E].kind = "Err"
    /\ system[E] >= 3
    /\ Len(decoder[E]) >= 3

----------------------------------------------------------------------------
(* The clock *)

InLog(op, log) == \E i \in 1..Len(log) : log[i] = op

\* C11: the clock of a process never decreases; a step advances it by exactly
\* one when it executes a micro-operation (a structural no-op or drop, or a
\* user operation) and leaves it alone otherwise, so that clk always equals
\* the number of micro-operations executed so far
C11_ClockCountsMicroOps ==
    [][\A m \in Runs :
         /\ system[m] = Len(executed[m])
         /\ system'[m] - system[m] \in {0, 1}
         /\ system'[m] - system[m] = Len(executed'[m]) - Len(executed[m])
         /\ system'[m] = Len(executed'[m])]_vars

\* C11 witness: structural no-ops, a structural drop and user operations
\* were executed, and a notification was issued without an operation
C11_Witness ==
    \E m \in Runs :
        /\ system[m] >= 5
        /\ InLog(Noop, executed[m])
        /\ InLog(Drop, executed[m])
        /\ InLog(Read, executed[m])
        /\ Len(decoder[m]) > Len(executed[m])

----------------------------------------------------------------------------
(* Loop blocks *)

\* the logical stack as one sequence, top first: the top segment, then the
\* overflow table from its last element to its first
Elements(l) == l.top \o Reverse(l.overflow)
Padded(s) == IF Len(s) < MIN_DEPTH THEN s \o Zeros(MIN_DEPTH - Len(s)) ELSE s

\* l2 is l with only its top element removed
TopRemoved(l, l2) == Elements(l2) = Padded(Tail(Elements(l)))

\* process m takes a step of its execute_code_block call
Stepped(m) == frames'[m] # frames[m]
InBlock(m, type) == frames[m] # <<>> /\ Top(m).block.type = type

\* a step of process m executes exactly `op`, issues exactly `note`
Executes(m, op) == executed'[m] = Append(executed[m], op)
Notifies(m, note) == decoder'[m] = Append(decoder[m], note)
\* a step of process m removes the top of the stack and nothing else
DropsTop(m) ==
    TopRemoved(LiveStack(stack[m], system[m]), LiveStack(stack'[m], system'[m]))
\* a step of process m calls execute_code_block(child) from a call left at pc
Calls(m, child, pc, condition) ==
    frames'[m] = <<Frame(child), [Top(m) EXCEPT !.pc = pc, !.condition = condition]>>
                    \o Tail(frames[m])

\* C12: a Loop executes its body once for every 1 it inspects on top of the
\* stack (at the start and after each body execution) and for nothing else,
\* each inspected 1 is dropped in the step that starts the body execution it
\* enables, and the step that ends the loop drops a 0
C12_LoopRepeatsWhileOne ==
    [][\A m \in Runs :
         InBlock(m, "Loop") /\ Stepped(m) =>
           LET f == Top(m)
               inspected == f.pc \in {"start", "while"}
               body == Calls(m, f.block.body, "while", ONE)
           IN  /\ body <=> (inspected /\ Peek(m) = ONE)
               /\ body => /\ Executes(m, Drop)
                           /\ DropsTop(m)
                           /\ Notifies(m, IF f.pc = "start" THEN Note("start_loop", ONE)
                                                              ELSE Note("repeat", 0))
               /\ (f.pc = "while" /\ Peek(m) = ZERO) =>
                      /\ Executes(m, Drop)
                      /\ DropsTop(m)
                      /\ Notifies(m, Note("end_loop", 0))
                      /\ frames'[m] = Tail(frames[m])
               /\ (f.pc = "while" /\ Len(decoder'[m]) > Len(decoder[m])
                      /\ decoder'[m][Len(decoder'[m])].event = "end_loop") => Peek(m) = ZERO]_vars

\* C12 witness: a loop entered on 1, repeated on 1 and ended on 0
C12_Witness ==
    \E m \in Runs : \E i, j, k \in 1..Len(decoder[m]) :
        /\ i < j /\ j < k
        /\ decoder[m][i].event = "start_loop" /\ decoder[m][i].arg = ONE
        /\ decoder[m][j].event = "repeat"
        /\ decoder[m][k].event = "end_loop"

\* the notifications of process m that report a Loop started on ZERO
SkippedLoops(m) ==
    {i \in 1..Len(decoder[m]) :
        decoder[m][i].event = "start_loop" /\ decoder[m][i].arg = ZERO}

\* C13: a Loop that finds 0 on top of the stack executes one no-op, which
\* leaves the stack as it is, and then the END drop, with no body operation
\* in between; after the loop the stack is the stack before it with only
\* the 0 removed
C13_LoopSkippedOnZero ==
    \A m \in Runs : \A i \in SkippedLoops(m) :
        /\ i <= Len(executed[m])
        /\ executed[m][i] = Noop
        /\ logical[m][i].top[1] = ZERO
        /\ logical[m][i + 1] = logical[m][i]
        /\ i + 1 <= Len(executed[m]) =>
              /\ executed[m][i + 1] = Drop
              /\ i + 1 <= Len(decoder[m])
              /\ decoder[m][i + 1] = Note("end_loop", 0)
              /\ TopRemoved(logical[m][i], logical[m][i + 2])
        /\ i + 1 > Len(executed[m]) =>
              /\ i = Len(decoder[m])
              /\ result[m] = Running

\* C13 witness: a nested Loop was skipped over a stack with a non-zero
\* element under the 0, and ended
C13_Witness ==
    \E m \in Runs : \E i \in SkippedLoops(m) :
        /\ i > 1
        /\ i + 1 <= Len(executed[m])
        /\ logical[m][i].top[2] # ZERO

----------------------------------------------------------------------------
(* Split blocks *)

\* a step of process m leaves the stack as it is
KeepsStack(m) ==
    LiveStack(stack'[m], system'[m]) = LiveStack(stack[m], system[m])

\* C14: a Split notifies the decoder of the condition it sees on top of the
\* stack while the condition is still there, removes it with exactly one
\* DROP, and in the same step calls on_true (and not on_false) when it is 1,
\* on_false (and not on_true) when it is 0; when the branch has returned
\* the block ends with exactly one no-op and calls nothing else
C14_SplitTakesOneBranch ==
    [][\A m \in Runs :
         InBlock(m, "Split") /\ Stepped(m) =>
           LET f == Top(m)
           IN  /\ f.pc \in {"start", "end"}
               /\ f.pc = "start" =>
                      /\ Notifies(m, Note("start_split", Peek(m)))
                      /\ Executes(m, Drop)
                      /\ DropsTop(m)
                      /\ Peek(m) = ONE => /\ Calls(m, f.block.on_true, "end", ONE)
                                          /\ Head(frames'[m]).block # f.block.on_false
                      /\ Peek(m) = ZERO => /\ Calls(m, f.block.on_false, "end", ZERO)
                                           /\ Head(frames'[m]).block # f.block.on_true
               /\ f.pc = "end" =>
                      /\ Notifies(m, Note("end_split", 0))
                      /\ Executes(m, Noop)
                      /\ KeepsStack(m)
                      /\ frames'[m] = Tail(frames[m])]_vars

\* C14 witness: a Split took its on_false branch on 0 and ended
C14_Witness ==
    \E m \in Runs : \E i, j \in 1..Len(decoder[m]) :
        /\ i < j
        /\ decoder[m][i].event = "start_split" /\ decoder[m][i].arg = ZERO
        /\ decoder[m][j].event = "end_split"

----------------------------------------------------------------------------
(* Join blocks *)

\* C15: a Join executes one no-op with its start notification and calls its
\* first child; it calls its second child only once the first has returned,
\* without an operation or notification of its own in between; once the
\* second has returned it executes one no-op with its end notification and
\* returns.  When a child fails every active call ends with it, and the
\* process executes and notifies nothing afterwards: a failing first child
\* means the second is never started and the Join's end never happens
C15_JoinInOrder ==
    [][\A m \in Runs :
         /\ InBlock(m, "Join") /\ Stepped(m) =>
               LET f == Top(m)
               IN  /\ f.pc \in {"start", "second", "end"}
                   /\ f.pc = "start" =>
                          /\ Notifies(m, Note("start_join", 0))
                          /\ Executes(m, Noop)
                          /\ KeepsStack(m)
                          /\ Calls(m, f.block.first, "second", ZERO)
                   /\ f.pc = "second" =>
                          /\ decoder'[m] = decoder[m]
                          /\ executed'[m] = executed[m]
                          /\ Calls(m, f.block.second, "end", ZERO)
                   /\ f.pc = "end" =>
                          /\ Notifies(m, Note("end_join", 0))
                          /\ Executes(m, Noop)
                          /\ KeepsStack(m)
                          /\ frames'[m] = Tail(frames[m])
         /\ (frames[m] # <<>> /\ result'[m].kind \in {"Err", "Panic"}) =>
               /\ frames'[m] = <<>>
               /\ Len(decoder'[m]) > Len(decoder[m]) =>
                      decoder'[m][Len(decoder'[m])].event # "end_join"
         /\ frames[m] = <<>> =>
               /\ frames'[m] = <<>>
               /\ decoder'[m] = decoder[m]
               /\ executed'[m] = executed[m]]_vars

\* C15 witness: the first child of the root Join failed on its read; the
\* Join's start and the child's start are all that was executed
C15_Witness ==
    \E m \in Runs :
        /\ script = IfElse
        /\ result[m].kind = "Err"
        /\ frames[m] = <<>>
        /\ decoder[m] = <<Note("start_join", 0), Note("start_span", 0)>>
        /\ executed[m] = <<Noop, Noop>>

----------------------------------------------------------------------------
(* Span blocks *)

\* the innermost call of process m moves to position (batch, idx) of its Span
SpanMoves(m, batch, idx) ==
    frames'[m] = <<[Top(m) EXCEPT !.pc = "ops", !.batch = batch, !.idx = idx]>>
                    \o Tail(frames[m])

\* inside batch f.batch at position f.idx: the operations executed last are
\* the batch's first f.idx - 1 operations in order, each notified after it,
\* right after the no-op that opened the batch (start SPAN or RESPAN)
SpanProgress(m, f) ==
    LET n == Len(executed[m])
        done == f.idx - 1
        opened == n - done
    IN  /\ opened >= 1
        /\ Len(decoder[m]) = n
        /\ executed[m][opened] = Noop
        /\ decoder[m][opened].event = IF f.batch = 1 THEN "start_span" ELSE "respan"
        /\ \A i \in 1..done :
              /\ executed[m][opened + i] = SpanBatch(f)[i]
              /\ decoder[m][opened + i].event = "execute_user_op"
              /\ decoder[m][opened + i].arg = SpanBatch(f)[i]

\* C16: a Span executes one no-op with its start notification, then the
\* user operations of its batches, each exactly once, batch after batch and
\* in order within the batch, with exactly one RESPAN no-op before every
\* batch other than the first and one END no-op after the last; a user
\* operation is dispatched to its handler before the decoder hears of it,
\* so that a failing operation is never notified
C16_SpanInOrder ==
    [][\A m \in Runs :
         InBlock(m, "Span") /\ Stepped(m) =>
           LET f == Top(m)
               last == Len(f.block.op_batches)
           IN  /\ f.pc \in {"start", "ops"}
               /\ f.pc = "start" =>
                      /\ f.batch = 1 /\ f.idx = 1
                      /\ Notifies(m, Note("start_span", 0))
                      /\ Executes(m, Noop)
                      /\ SpanMoves(m, 1, 1)
               /\ f.pc = "ops" => SpanProgress(m, f)
               /\ (f.pc = "ops" /\ f.idx <= Len(SpanBatch(f))) =>
                      \/ /\ Executes(m, SpanBatch(f)[f.idx])
                         /\ Notifies(m, Note("execute_user_op", SpanBatch(f)[f.idx]))
                         /\ SpanMoves(m, f.batch, f.idx + 1)
                      \/ /\ result'[m].kind = "Err"
                         /\ frames'[m] = <<>>
                         /\ executed'[m] = executed[m]
                         /\ decoder'[m] = decoder[m]
               /\ (f.pc = "ops" /\ f.idx > Len(SpanBatch(f)) /\ f.batch < last) =>
                      /\ Notifies(m, Note("respan", f.batch + 1))
                      /\ Executes(m, Noop)
                      /\ SpanMoves(m, f.batch + 1, 1)
               /\ (f.pc = "ops" /\ f.idx > Len(SpanBatch(f)) /\ f.batch >= last) =>
                      /\ f.batch = last
                      /\ Notifies(m, Note("end_span", 0))
                      /\ Executes(m, Noop)
                      /\ frames'[m] = Tail(frames[m])]_vars

\* C16 witness: a Span of two batches ran both and ended
C16_Witness ==
    \E m \in Runs : \E i, j, k \in 1..Len(decoder[m]) :
        /\ i < j /\ j < k
        /\ decoder[m][i].event = "respan"
        /\ decoder[m][j].event = "execute_user_op"
        /\ decoder[m][k].event = "end_span"

----------------------------------------------------------------------------
(* Proxy blocks *)

\* C18: executing a Proxy, at the root of the script or nested in other
\* blocks, fails with UnexecutableCodeBlock (carrying the Proxy's hash) and
\* ends every active call, and the failing step neither notifies the
\* decoder nor executes an operation, advances the clock or changes the stack
C18_ProxyFails ==
    [][\A m \in Runs :
         InBlock(m, "Proxy") /\ Stepped(m) =>
           /\ result'[m] = Err(UnexecutableCodeBlock(Top(m).block.hash))
           /\ frames'[m] = <<>>
           /\ decoder'[m] = decoder[m]
           /\ executed'[m] = executed[m]
           /\ system'[m] = system[m]
           /\ stack'[m] = stack[m]
           /\ advice'[m] = advice[m]]_vars

\* C18 witness: a Proxy nested in a Split failed after some cycles
C18_Witness ==
    \E m \in Runs :
        /\ result[m].kind = "Err"
        /\ result[m].error.kind = "UnexecutableCodeBlock"
        /\ system[m] >= 1
        /\ Len(decoder[m]) >= 1

----------------------------------------------------------------------------
(* OverflowTable without trace capture *)

\* C19: with trace capture disabled, whatever pushes and pops were called,
\* the snapshot map is empty and snapshot_at appends nothing to its
\* destination for every step, while active holds the values pushed and not
\* yet popped, as it does with capture enabled
C19_NoSnapshotsWhenDisabled ==
    /\ ~ot.trace_enabled =>
          /\ ot.trace = {}
          /\ \A k \in AllSteps :
                /\ AppendStateInto(ot, k, <<>>) = <<>>
                /\ AppendStateInto(ot, k, <<ONE>>) = <<ONE>>
    /\ ot.active = PushedMinusPopped(ot_log, MaxStep + 1)

\* C19 witness: capture disabled, pushes and a pop that removed an element
\* were called and the table is not empty
C19_Witness ==
    /\ ~ot.trace_enabled
    /\ Len(ot_log) = MaxCalls
    /\ \E i \in 1..Len(ot_log) : ot_log[i].call = "pop" /\ ot_log[i].returned.some
    /\ ot.active # <<>>

----------------------------------------------------------------------------
(* The boundary between the top segment and the overflow table *)

\* operations that push one element, and operations that remove one
PushesOne(op) == op.op \in {"Push", "Dup", "Read"}
PopsOne(op) == op.op \in {"Drop", "Add", "Mul"}

\* the operations k+1 .. j-1 of a log are no-ops
NoopsBetween(log, k, j) == \A i \in (k + 1)..(j - 1) : log[i] = Noop

\* C20: an operation that pushes onto the stack (whose depth is never below
\* 16) appends exactly the element that was at position 15 to the end of
\* the overflow table and moves positions 0..14 down by one; an operation
\* that pops with a non-empty overflow table moves exactly the table's last
\* element to position 15; a push followed by a drop leaves the logical
\* stack (depth, top segment and overflow contents) as it was before
C20_BoundaryConserved ==
    \A m \in Runs : \A k \in 1..Len(executed[m]) :
        LET op == executed[m][k]
            a == logical[m][k]
            b == logical[m][k + 1]
        IN  /\ a.depth >= MIN_DEPTH
            /\ PushesOne(op) =>
                  /\ b.overflow = Append(a.overflow, a.top[MIN_DEPTH])
                  /\ SubSeq(b.top, 2, MIN_DEPTH) = SubSeq(a.top, 1, MIN_DEPTH - 1)
                  /\ b.depth = a.depth + 1
                  /\ \A j \in (k + 1)..Len(executed[m]) :
                        (executed[m][j] = Drop /\ NoopsBetween(executed[m], k, j))
                            => logical[m][j + 1] = a
            /\ (PopsOne(op) /\ a.overflow # <<>>) =>
                  /\ b.top[MIN_DEPTH] = a.overflow[Len(a.overflow)]
                  /\ b.overflow = SubSeq(a.overflow, 1, Len(a.overflow) - 1)
                  /\ b.depth = a.depth - 1

\* C20 witness: two different elements were spilled and the last of them
\* came back to position 15, in a push followed by a drop
C20_Witness ==
    \E m \in Runs : \E k \in 1..Len(executed[m]) : \E j \in (k + 1)..Len(executed[m]) :
        /\ PushesOne(executed[m][k])
        /\ executed[m][j] = Drop
        /\ NoopsBetween(executed[m], k, j)
        /\ Len(logical[m][j].overflow) >= 2
        /\ logical[m][j].overflow[1] # logical[m][j].overflow[2]
        /\ logical[m][j + 1].top[MIN_DEPTH] # ZERO

----------------------------------------------------------------------------
(* The initial stack *)

\* the first Len(init) elements of a stack state, top first, are the
\* elements of init from the last to the first
LastOnTop(init, state) ==
    \A i \in 1..Len(init) : state[i] = init[Len(init) - i + 1]

----------------------------------------------------------------------------
(* The if/else program of miden/src/tests.rs *)

\* the stack a finished process holds
FinalStack(m) == logical[m][Len(logical[m])]

\* C22: the program `begin read if.true add push.3 else push.7 add push.8
\* end mul end`, run on stack_init = [5, 3] and advice tape [0], takes the
\* false branch and finishes with the stack 96, 3 and zeros below
C22_IfElseFalseBranch ==
    \A m \in Runs :
        (/\ script = IfElse
         /\ inputs = [stack_init |-> <<5, 3>>, advice_tape |-> <<0>>]
         /\ result[m] = Ok) =>
            /\ \E i \in 1..Len(decoder[m]) :
                  decoder[m][i].event = "start_split" /\ decoder[m][i].arg = ZERO
            /\ FinalStack(m).top = <<96, 3>> \o Zeros(MIN_DEPTH - 2)

\* what the executor leaves on these inputs: 80, 5 and zeros below
IfElseFalseBranchLeaves80 ==
    \A m \in Runs :
        (/\ script = IfElse
         /\ inputs = [stack_init |-> <<5, 3>>, advice_tape |-> <<0>>]
         /\ result[m] = Ok) =>
            /\ \E i \in 1..Len(decoder[m]) :
                  decoder[m][i].event = "start_split" /\ decoder[m][i].arg = ZERO
            /\ FinalStack(m).top = <<80, 5>> \o Zeros(MIN_DEPTH - 2)

----------------------------------------------------------------------------
(* Clock cycles per block *)

RECURSIVE SumLen(_)
SumLen(batches) ==
    IF batches = <<>> THEN 0 ELSE Len(Head(batches)) + SumLen(Tail(batches))

\* the cycles the accounting of C23 gives to an execution of `block` whose
\* first notification is log[p]; the branch a Split took and the number of
\* iterations a Loop ran are read from the notifications
RECURSIVE Cycles(_, _, _)
RECURSIVE LoopCycles(_, _, _)
Cycles(block, log, p) ==
    CASE block.type = "Span" -> SumLen(block.op_batches) + Len(block.op_batches) + 1
      [] block.type = "Join" ->
            LET c1 == Cycles(block.first, log, p + 1)
            IN  2 + c1 + Cycles(block.second, log, p + 1 + c1)
      [] block.type = "Split" ->
            2 + Cycles(IF log[p].arg = ONE THEN block.on_true ELSE block.on_false, log, p + 1)
      [] block.type = "Loop" ->
            IF log[p].arg = ZERO THEN 2 ELSE 1 + LoopCycles(block.body, log, p + 1)
      [] OTHER -> 0

\* the body execution that starts at log[p], the iterations that follow it
\* and one cycle for each predicate inspected after a body execution
LoopCycles(body, log, p) ==
    LET c == Cycles(body, log, p)
    IN  IF log[p + c].event = "repeat"
        THEN c + 1 + LoopCycles(body, log, p + c + 1)
        ELSE c + 1

----------------------------------------------------------------------------
(* Where a non-binary predicate fails *)

FailedNotBinary(m) ==
    result[m].kind = "Err" /\ result[m].error.kind = "NotBinaryValue"

\* C24: an execution that failed with NotBinaryValue(v) failed in the start
\* of a Split or of a Loop that was notified of v.  In a Split the DROP has
\* executed: v is removed from the stack and clk is one more than when the
\* block started.  In a Loop no operation of the block has executed: v is
\* still on top and clk is what it was when the block started, although
\* the decoder has the loop's start notification
C24_NotBinaryFailurePoint ==
    \A m \in Runs :
        FailedNotBinary(m) =>
            LET n == Len(decoder[m])
                k == Len(executed[m])
                v == result[m].error.value
            IN  /\ n >= 1
                /\ v \notin Binary
                /\ decoder[m][n].event \in {"start_split", "start_loop"}
                /\ decoder[m][n].arg = v
                /\ decoder[m][n].event = "start_split" =>
                      /\ k = n
                      /\ system[m] = n
                      /\ executed[m][k] = Drop
                      /\ logical[m][k].top[1] = v
                      /\ TopRemoved(logical[m][k], FinalStack(m))
                /\ decoder[m][n].event = "start_loop" =>
                      /\ k = n - 1
                      /\ system[m] = n - 1
                      /\ Len(logical[m]) = n
                      /\ FinalStack(m).top[1] = v

\* C24 witness: a nested Loop failed on a non-binary value at its start
C24_Witness ==
    \E m \in Runs :
        /\ FailedNotBinary(m)
        /\ decoder[m][Len(decoder[m])].event = "start_loop"
        /\ system[m] >= 1

----------------------------------------------------------------------------
(* The stack under the structural operations *)

Bracketing == {"start_join", "end_join", "start_span", "respan", "end_span", "end_split"}

\* the k-th operation of process m is a no-op that leaves the stack as it is
NoopAt(m, k) ==
    executed[m][k] = Noop /\ logical[m][k + 1] = logical[m][k]

\* the k-th operation of process m is a drop that removes the predicate v
\* from the top of the stack and nothing else
DropAt(m, k, v) ==
    /\ executed[m][k] = Drop
    /\ logical[m][k].top[1] = v
    /\ TopRemoved(logical[m][k], logical[m][k + 1])

\* C25: the operation executed with the start or end notification of a
\* Join, with the start, RESPAN or end notification of a Span and with the
\* end notification of a Split is a no-op that leaves the stack unchanged;
\* a Split's start removes exactly its predicate; a Loop removes exactly
\* the predicate it inspects at its start when that is 1, after each body
\* execution (REPEAT on 1, END on 0), and nothing at its start on 0; every
\* other operation is a user operation of a branch or body
C25_StructuralFrame ==
    \A m \in Runs : \A k \in 1..Len(executed[m]) :
        LET note == decoder[m][k]
        IN  /\ k <= Len(decoder[m])
            /\ note.event \in Bracketing => NoopAt(m, k)
            /\ note.event = "start_split" => DropAt(m, k, note.arg)
            /\ note.event = "start_loop" =>
                  IF note.arg = ONE THEN DropAt(m, k, ONE) ELSE NoopAt(m, k)
            /\ note.event = "repeat" => DropAt(m, k, ONE)
            /\ note.event = "end_loop" => DropAt(m, k, ZERO)
            /\ note.event \notin (Bracketing \cup {"start_split", "start_loop", "repeat", "end_loop"})
                  => (note.event = "execute_user_op" /\ note.arg = executed[m][k])

\* C25 witness: a Loop over a Join of a Span and a Split ended Ok
C25_Witness ==
    \E m \in Runs :
        /\ script = LoopSplit
        /\ result[m] = Ok
        /\ \E i \in 1..Len(decoder[m]) : decoder[m][i].event = "end_split"

----------------------------------------------------------------------------
(* OverflowTable::pop at the edge of the table *)

\* the call the step appends to the log
CallMade == ot_log'[Len(ot_log')]
PopCalled == Len(ot_log') = Len(ot_log) + 1 /\ CallMade.call = "pop"

\* C26: a pop on an empty table returns None and leaves the table as it
\* was, with trace capture enabled too: active stays empty and no snapshot
\* is inserted or overwritten.  A pop that removes the last remaining
\* element returns it, leaves active empty and, with capture enabled,
\* records the empty snapshot at its step
C26_PopAtTheEdge ==
    [][PopCalled =>
         /\ ot.active = <<>> =>
               /\ ~CallMade.returned.some
               /\ ot' = ot
         /\ Len(ot.active) = 1 =>
               /\ CallMade.returned = [some |-> TRUE, value |-> ot.active[1]]
               /\ ot'.active = <<>>
               /\ ot.trace_enabled =>
                     /\ [step |-> CallMade.step, values |-> <<>>] \in ot'.trace
                     /\ AppendStateInto(ot', CallMade.step, <<>>) = <<>>]_vars

\* C26 witness: with capture enabled, a pop was called on the empty table
\* at a step that holds a non-empty snapshot, after a pop that removed the
\* last element
C26_Witness ==
    /\ ot.trace_enabled
    /\ ot.active = <<>>
    /\ Len(ot_log) >= 3
    /\ LET last == ot_log[Len(ot_log)]
       IN  /\ last.call = "pop"
           /\ ~last.returned.some
           /\ \E e \in ot.trace : e.step = last.step /\ e.values # <<>>
    /\ \E i \in 1..Len(ot_log) : ot_log[i].call = "pop" /\ ot_log[i].returned.some

----------------------------------------------------------------------------
(* Several mutations at one step *)

\* a call that changed the table: every push, and a pop that removed something
Recorded(c) == c.call = "push" \/ c.returned.some

\* the contents of the table after the last call of the log that changed
\* it at step s, if there is one
RECURSIVE LastRecordedAt(_, _)
LastRecordedAt(log, s) ==
    IF log = <<>>
    THEN [some |-> FALSE, values |-> <<>>]
    ELSE IF log[Len(log)].step = s /\ Recorded(log[Len(log)])
         THEN [some |-> TRUE, values |-> PushedMinusPopped(log, MaxStep + 1)]
         ELSE LastRecordedAt(SubSeq(log, 1, Len(log) - 1), s)

\* the table of test_overflow_trace: push(0,1), push(1,2), push(2,3),
\* push(3,4), pop(4), pop(5), pop(5), push(6,5) on a table with capture enabled
TestOverflowTrace ==
    LET t1 == OverflowPush(OverflowNew(TRUE), 0, 1)
        t2 == OverflowPush(t1, 1, 2)
        t3 == OverflowPush(t2, 2, 3)
        t4 == OverflowPush(t3, 3, 4)
        t5 == OverflowPop(t4, 4)
        t6 == OverflowPop(t5, 5)
        t7 == OverflowPop(t6, 5)
    IN  OverflowPush(t7, 6, 5)

\* C27: with trace capture enabled the snapshot map holds at most one
\* snapshot per step, and the one it holds for a step is the contents of
\* the table after the last mutation made at that step: a later mutation at
\* the same step overwrites the earlier one, and snapshot_at(step) gives
\* the contents after the last of them (two pops at step 5 from 1, 2, 3
\* give the snapshot 1 at step 5)
C27_LastMutationOfAStepWins ==
    ot.trace_enabled =>
        /\ \A e \in ot.trace : e.step \in AllSteps
        /\ \A s \in AllSteps :
              LET last == LastRecordedAt(ot_log, s)
                  at == {e \in ot.trace : e.step = s}
              IN  IF last.some
                  THEN /\ at = {[step |-> s, values |-> last.values]}
                       /\ AppendStateInto(ot, s, <<>>) = last.values
                  ELSE at = {}
        /\ AppendStateInto(TestOverflowTrace, 4, <<>>) = <<1, 2, 3>>
        /\ AppendStateInto(TestOverflowTrace, 5, <<>>) = <<1>>
        /\ AppendStateInto(TestOverflowTrace, 6, <<>>) = <<1, 5>>
        /\ \A e1, e2 \in TestOverflowTrace.trace : e1.step = e2.step => e1 = e2

\* C27 witness: two pushes at earlier steps, then two pops at one step that
\* both removed an element: the snapshot of that step is the empty one
C27_Witness ==
    /\ ot.trace_enabled
    /\ Len(ot_log) = 4
    /\ ot_log[1].call = "push" /\ ot_log[2].call = "push"
    /\ ot_log[1].step < ot_log[3].step /\ ot_log[2].step < ot_log[3].step
    /\ ot_log[3].call = "pop" /\ ot_log[3].returned.some
    /\ ot_log[4].call = "pop" /\ ot_log[4].returned.some
    /\ ot_log[3].step = ot_log[4].step
    /\ [step |-> ot_log[4].step, values |-> <<>>] \in ot.trace

----------------------------------------------------------------------------
(* append_state_into and its destination *)

\* destinations handed to append_state_into
Destinations == {<<>>, <<ONE>>, <<2, ONE>>}

\* C28: snapshot_at(step, out) only appends to out: what out held is kept
\* as a prefix, the appended part is the snapshot recorded under the
\* greatest key <= step, and out is left as it was when no key is <= step
C28_SnapshotOnlyAppends ==
    \A k \in AllSteps : \A out \in Destinations :
        LET r == AppendStateInto(ot, k, out)
            below == {e \in ot.trace : e.step <= k}
        IN  /\ Len(r) >= Len(out)
            /\ SubSeq(r, 1, Len(out)) = out
            /\ below = {} => r = out
            /\ below # {} =>
                  \E e \in below :
                      /\ \A f \in below : f.step <= e.step
                      /\ SubSeq(r, Len(out) + 1, Len(r)) = e.values

\* C28 witness: snapshots are recorded at two steps, none of them at step
\* 0, and the later one is not empty
C28_Witness ==
    /\ Cardinality(ot.trace) >= 2
    /\ \A e \in ot.trace : e.step >= 1
    /\ AppendStateInto(ot, 0, <<ONE>>) = <<ONE>>
    /\ Len(AppendStateInto(ot, MaxStep, <<ONE>>)) >= 2

----------------------------------------------------------------------------
(* Recorded history *)

\* C29: with trace capture enabled and calls made at non-decreasing steps,
\* a push or pop never changes what snapshot_at gives for a step below the
\* step of an earlier call: the snapshots of the past stay as recorded
C29_HistoryImmutable ==
    [][(/\ ot.trace_enabled
        /\ ot_log # <<>>
        /\ Len(ot_log') = Len(ot_log) + 1
        /\ NonDecreasing(ot_log')) =>
           \A k \in AllSteps :
               k < ot_log[Len(ot_log)].step =>
                   AppendStateInto(ot', k, <<>>) = AppendStateInto(ot, k, <<>>)]_vars

\* C29 witness: calls at non-decreasing steps changed the table at a later
\* step while an earlier step holds a different, non-empty snapshot
C29_Witness ==
    /\ ot.trace_enabled
    /\ NonDecreasing(ot_log)
    /\ Len(ot_log) = MaxCalls
    /\ ot_log[1].step < ot_log[MaxCalls].step
    /\ Recorded(ot_log[MaxCalls])
    /\ AppendStateInto(ot, ot_log[1].step, <<>>) # <<>>
    /\ AppendStateInto(ot, ot_log[1].step, <<>>) # AppendStateInto(ot, ot_log[MaxCalls].step, <<>>)

----------------------------------------------------------------------------
(* Two tables, one with trace capture and one without *)

\* the table o after the calls of a log were made on it
RECURSIVE Driven(_, _)
Driven(o, log) ==
    IF log = <<>>
    THEN o
    ELSE LET before == Driven(o, SubSeq(log, 1, Len(log) - 1))
             c == log[Len(log)]
         IN  IF c.call = "push"
             THEN OverflowPush(before, c.step, c.value)
             ELSE OverflowPop(before, c.step)

\* C30: a second table built with the opposite trace_enabled flag and
\* driven by the same push and pop calls has the same active sequence
\* after every call and returns the same value from every pop
C30_ActiveIndependentOfFlag ==
    LET twin(i) == Driven(OverflowNew(~ot.trace_enabled), SubSeq(ot_log, 1, i))
    IN  /\ twin(Len(ot_log)).trace_enabled # ot.trace_enabled
        /\ twin(Len(ot_log)).active = ot.active
        /\ \A i \in 1..Len(ot_log) :
              ot_log[i].call = "pop" => OverflowPopped(twin(i - 1)) = ot_log[i].returned

\* C30 witness: the table with capture enabled recorded snapshots under
\* pushes and a pop that removed an element, and is not empty
C30_Witness ==
    /\ ot.trace_enabled
    /\ Cardinality(ot.trace) >= 2
    /\ Len(ot_log) = MaxCalls
    /\ \E i \in 1..Len(ot_log) : ot_log[i].call = "pop" /\ ot_log[i].returned.some
    /\ ot.active # <<>>

----------------------------------------------------------------------------
(* Termination *)

RECURSIVE LoopFree(_)
LoopFree(block) ==
    CASE block.type = "Loop" -> FALSE
      [] block.type = "Join" -> LoopFree(block.first) /\ LoopFree(block.second)
      [] block.type = "Split" -> LoopFree(block.on_true) /\ LoopFree(block.on_false)
      [] OTHER -> TRUE

\* the micro-operations of a tree when each of its blocks is executed once
RECURSIVE TreeSize(_)
TreeSize(block) ==
    CASE block.type = "Span" -> SumLen(block.op_batches) + Len(block.op_batches) + 1
      [] block.type = "Join" -> 2 + TreeSize(block.first) + TreeSize(block.second)
      [] block.type = "Split" -> 2 + TreeSize(block.on_true) + TreeSize(block.on_false)
      [] block.type = "Loop" -> 2 + TreeSize(block.body)
      [] OTHER -> 0

\* the call execute_code_block(script.root()) of every process has returned
Terminated == \A m \in Runs : frames[m] = <<>>

\* the operations and notifications of every process stay within the tree
WithinTree ==
    \A m \in Runs :
        /\ LoopFree(script) =>
              /\ system[m] <= TreeSize(script)
              /\ Len(decoder[m]) <= TreeSize(script)
              /\ system[m] < MaxClk
        /\ system[m] > TreeSize(script) =>
              \E i \in 1..Len(decoder[m]) : decoder[m][i].event = "repeat"

\* C31: the execution of a script without a Loop block terminates, in
\* both processes, and executes no more micro-operations than its tree
\* has when every block is executed once; an execution that goes beyond
\* the size of its tree has repeated a Loop
C31_LoopFreeTerminates ==
    /\ []WithinTree
    /\ LoopFree(script) ~> Terminated

\* C31 witness: a script of Joins, a Split and Spans ended Ok after as many
\* cycles as the taken branches have
C31_Witness ==
    /\ script = IfElse
    /\ Terminated
    /\ \A m \in Runs : result[m] = Ok /\ system[m] >= 10

----------------------------------------------------------------------------
(* The iterator and the process it reads *)

\* a step is a call of next() when it yields an item
Yields == Len(items') = Len(items) + 1

\* C32: the iterator only replays.  When next() yields an item the call
\* execute_code_block of execute_iter has returned (with Ok or an error)
\* and execute_iter has handed out the iterator; the call leaves the
\* operations executed, the notifications, clk, the stack with its overflow
\* table, the advice and the outcome of both processes as they were; it
\* moves the cursor by one when the item is an Ok state and leaves it alone
\* when the item is an error or None, and nothing else moves the cursor
C32_IteratorOnlyReplays ==
    [][/\ Yields =>
            /\ frames[D] = <<>>
            /\ result[D].kind \in {"Ok", "Err"}
            /\ ret[D].kind = "Iterator"
            /\ executed' = executed
            /\ decoder' = decoder
            /\ system' = system
            /\ stack' = stack
            /\ advice' = advice
            /\ logical' = logical
            /\ frames' = frames
            /\ result' = result
            /\ iter'.error = iter.error
            /\ iter'.clk = IF items'[Len(items')].kind = "Ok" THEN iter.clk + 1 ELSE iter.clk
       /\ items' # items => Yields /\ SubSeq(items', 1, Len(items)) = items
       /\ iter'.clk # iter.clk => Yields]_vars

\* C32 witness: the iterator yielded the states of an execution that failed
\* after some cycles and then its error twice; the cursor stands one past
\* the last cycle
C32_Witness ==
    /\ Len(items) >= 4
    /\ items[1].kind = "Ok"
    /\ items[Len(items)].kind = "Err"
    /\ items[Len(items) - 1].kind = "Err"
    /\ system[D] >= 1
    /\ iter.clk = system[D] + 1

====
